---- MODULE Spec2Model ----
(***************************************************************************)
(* A model of the flight-satisfaction demo: the categorical encoder        *)
(* (src/src/categorical_encoder.py) and the Streamlit request flow         *)
(* (src/app-prod.py).                                                      *)
(*                                                                         *)
(* A table (pandas DataFrame) is a sequence of named columns; a column has *)
(* a dtype and a sequence of cells.  A cell is a record [k, s, n]: k is    *)
(* "str", "int" or "null", s the string and n the integer it holds.        *)
(* Columns are built the way pandas builds them by default: strings live   *)
(* in object columns, integers in int64 columns, integers mixed with       *)
(* missing values in float64 columns; a column of missing values only is   *)
(* object (DataFrame constructor) or float64 (read_csv).  Extension dtypes *)
(* (category, string) and object columns mixing strings with numbers are   *)
(* outside the model.                                                      *)
(***************************************************************************)
EXTENDS Integers, Sequences, FiniteSets, TLC

VARIABLES
    df,              \* encoder run: the table object handed to encode_categorical
    snaps,           \* encoder run: snapshots of df, before the first call and after each call
    disk,            \* the artifacts on disk: the two serialized models and the reference CSV
    resource_cache,  \* st.cache_resource: the entries of load_models
    data_cache,      \* st.cache_data: the entries of load_and_fit_preprocessor
    loads,           \* how often the body of each cached loader has run
    widgets,         \* the session's widget values, by position in WidgetSpec
    model_choice,    \* the 'Choose Model' selectbox
    rendered,        \* what the last script run put on the page, in order
    run,             \* the objects of the last script run, as the run left them
    pred_df,         \* repeated prediction: the input record object
    pred_out         \* repeated prediction: what each make_prediction call returned

encVars == <<df, snaps>>
appVars == <<disk, resource_cache, data_cache, loads, widgets, model_choice, rendered, run>>
predVars == <<pred_df, pred_out>>
vars == <<df, snaps, disk, resource_cache, data_cache, loads, widgets, model_choice,
          rendered, run, pred_df, pred_out>>

----------------------------------------------------------------------------
(* Bounds of the model *)

MaxRows == 3
MaxCalls == 2

----------------------------------------------------------------------------
(* Cells and columns *)

StrCell(s) == [k |-> "str", s |-> s, n |-> 0]
IntCell(n) == [k |-> "int", s |-> "", n |-> n]
NullCell == [k |-> "null", s |-> "", n |-> 0]

HoldsString(col) == \E r \in DOMAIN col.vals : col.vals[r].k = "str"
HoldsNull(col) == \E r \in DOMAIN col.vals : col.vals[r].k = "null"
OnlyInts(col) == \A r \in DOMAIN col.vals : col.vals[r].k = "int"

\* The strings of the model in Python's sort order (code point order).
SortedStrings == <<"Business", "Eco", "Eco Plus", "No", "Yes">>

Rank(s) == CHOOSE i \in 1..Len(SortedStrings) : SortedStrings[i] = s

\* The order pd.Categorical sorts the distinct values by.
CellLess(a, b) ==
    IF a.k = "int" /\ b.k = "int" THEN a.n < b.n
    ELSE IF a.k = "str" /\ b.k = "str" THEN Rank(a.s) < Rank(b.s)
    ELSE a.k = "int" /\ b.k = "str"

\* pd.Categorical(values).categories: the distinct non-missing values.
Categories(vals) == {vals[i] : i \in {j \in DOMAIN vals : vals[j].k # "null"}}

CodeOfCodebook(cats, c) ==
    IF c.k = "null" THEN -1 ELSE IF c.k = "str" THEN Rank(c.s) - 1 ELSE c.n

CodeOfNullZero(cats, c) ==
    IF c.k = "null" THEN 0 ELSE Cardinality({t \in cats : CellLess(t, c)})

\* The code of one cell: its position among the sorted categories, -1 when missing.
CodeOf(cats, c) ==
    IF c.k = "null" THEN -1 ELSE Cardinality({t \in cats : CellLess(t, c)})

CodesByRow(vals) == [i \in DOMAIN vals |-> IntCell(i - 1)]

\* pd.Categorical(df[column]).codes
Codes(vals) == [i \in DOMAIN vals |-> IntCell(CodeOf(Categories(vals), vals[i]))]

IsObjectAny(col) == TRUE

\* df.select_dtypes(include=['object']) keeps the columns of dtype object.
IsObject(col) == col.dtype = "object"

\* df[column] = pd.Categorical(df[column]).codes
EncodeColumn(col) == [name |-> col.name, dtype |-> "int8", vals |-> Codes(col.vals)]

encode_first_only(t) ==
    LET obj == {i \in DOMAIN t : IsObject(t[i])}
    IN  [i \in DOMAIN t |->
            IF i \in obj /\ \A j \in obj : i <= j THEN EncodeColumn(t[i]) ELSE t[i]]

\* encode_categorical(df): the table after the loop over its object columns
\* (the same object, mutated, is returned).
encode_categorical(t) ==
    [i \in DOMAIN t |-> IF IsObject(t[i]) THEN EncodeColumn(t[i]) ELSE t[i]]

----------------------------------------------------------------------------
(* The application: widgets, artifacts, preprocessing, prediction *)

\* The sidebar widgets of user_input_features, in the order of the inputs dict.
WidgetSpec == <<
    [name |-> "Online boarding", kind |-> "slider", lo |-> 1, hi |-> 5, default |-> 3, options |-> <<>>],
    [name |-> "Inflight wifi service", kind |-> "slider", lo |-> 1, hi |-> 5, default |-> 3, options |-> <<>>],
    [name |-> "Inflight entertainment", kind |-> "slider", lo |-> 1, hi |-> 5, default |-> 3, options |-> <<>>],
    [name |-> "Checkin service", kind |-> "slider", lo |-> 1, hi |-> 5, default |-> 3, options |-> <<>>],
    [name |-> "Seat comfort", kind |-> "slider", lo |-> 1, hi |-> 5, default |-> 3, options |-> <<>>],
    [name |-> "Age", kind |-> "number_input", lo |-> 0, hi |-> 100, default |-> 18, options |-> <<>>],
    [name |-> "Flight Distance", kind |-> "number_input", lo |-> 0, hi |-> 10000, default |-> 100, options |-> <<>>],
    [name |-> "Business Travel", kind |-> "selectbox", lo |-> 0, hi |-> 0, default |-> 0, options |-> <<"Yes", "No">>],
    [name |-> "Loyal Customer", kind |-> "selectbox", lo |-> 0, hi |-> 0, default |-> 0, options |-> <<"Yes", "No">>],
    [name |-> "Class", kind |-> "selectbox", lo |-> 0, hi |-> 0, default |-> 0, options |-> <<"Eco", "Eco Plus", "Business">>] >>

Fields == DOMAIN WidgetSpec
Nominal == {i \in Fields : WidgetSpec[i].kind = "selectbox"}
Numeric == Fields \ Nominal

\* A widget's value before the user touches it (a selectbox starts on its first option).
DefaultValue(i) ==
    IF i \in Nominal THEN StrCell(WidgetSpec[i].options[1]) ELSE IntCell(WidgetSpec[i].default)

\* The numeric widgets the model lets the user move; the others stay on their
\* defaults.
VariedFields == {"Online boarding", "Age"}

\* The values of a widget the model lets the user pick: every option of a
\* selectbox; the lower bound, the default and the upper bound of a varied
\* number.
WidgetValues(i) ==
    IF i \in Nominal
    THEN {StrCell(WidgetSpec[i].options[j]) : j \in DOMAIN WidgetSpec[i].options}
    ELSE IF WidgetSpec[i].name \in VariedFields
    THEN {IntCell(WidgetSpec[i].lo), IntCell(WidgetSpec[i].default), IntCell(WidgetSpec[i].hi)}
    ELSE {IntCell(WidgetSpec[i].default)}

ModelChoices == <<"LightGBM", "Decision Tree">>

\* user_input_features(): pd.DataFrame(inputs, index=[0]), one row.
user_input_features(w) ==
    [i \in Fields |->
        [name |-> WidgetSpec[i].name,
         dtype |-> IF i \in Nominal THEN "object" ELSE "int64",
         vals |-> <<w[i]>>]]

\* pd.read_csv: the reference dataset as a table, from its rows.
read_csv(rows) ==
    [i \in Fields |->
        [name |-> WidgetSpec[i].name,
         dtype |-> IF i \in Nominal THEN "object" ELSE "int64",
         vals |-> [r \in DOMAIN rows |->
                     IF i \in Nominal THEN StrCell(rows[r][i]) ELSE IntCell(rows[r][i])]]]

\* Reference datasets the CSV at config.DATA_PATH may hold.
CsvFiles == {
    << <<5, 4, 5, 4, 5, 40, 2000, "Yes", "Yes", "Business">>,
       <<2, 1, 3, 3, 2, 25, 300, "No", "Yes", "Eco">>,
       <<3, 3, 4, 2, 3, 61, 900, "Yes", "No", "Eco Plus">> >>,
    << <<1, 2, 1, 3, 1, 18, 100, "No", "No", "Eco">>,
       <<4, 5, 4, 5, 4, 33, 5000, "No", "Yes", "Eco Plus">> >> }

\* A trained classifier, as far as the application uses it: a decision stump
\* over one feature of the transformed record.
ModelFamily == {
    [feature |-> 1, threshold |-> 4],
    [feature |-> 10, threshold |-> 1] }

\* model.predict(X): one class per row.
predict(model, X) ==
    [r \in DOMAIN X |-> IF X[r][model.feature] >= model.threshold THEN 1 ELSE 0]

\* What the files on disk may hold: a reference CSV and two different models.
Disks == {d \in [csv : CsvFiles, lgbm : ModelFamily, dec_tree : ModelFamily] : d.lgbm # d.dec_tree}

\* joblib.load of the two model files.
load_models_body(d) == [lgbm_model |-> d.lgbm, dec_tree |-> d.dec_tree]

\* preprocessor.fit(table): the fitted state is the list of feature columns.
fit(t) == [columns |-> [i \in DOMAIN t |-> t[i].name]]

ColumnNamed(t, name) == t[CHOOSE j \in DOMAIN t : t[j].name = name]

\* preprocessor.transform(table) -> numeric matrix; it raises on a cell that is
\* not a number.
transform(pre, t) ==
    IF \A i \in DOMAIN pre.columns : OnlyInts(ColumnNamed(t, pre.columns[i]))
    THEN [ok |-> TRUE,
          X |-> [r \in DOMAIN t[1].vals |->
                   [i \in DOMAIN pre.columns |-> ColumnNamed(t, pre.columns[i]).vals[r].n]]]
    ELSE [ok |-> FALSE, X |-> <<>>]

\* The body of load_and_fit_preprocessor(file_path).
load_and_fit_preprocessor_body(d) ==
    LET flight_df == read_csv(d.csv)
    IN  [preprocessor |-> fit(flight_df), flight_df |-> flight_df]

\* The steps of a prediction request at which a library call may raise.
PredictFailures == {"encode_categorical", "transform", "predict", "shap_values", "explain_instance"}
RenderFailures == {"as_html", "components_html"}
FailPoints == {"none"} \cup PredictFailures \cup RenderFailures

Truthy(x) == x # 0

LabelSwapped(prediction) == IF Truthy(prediction[1]) THEN "Not Satisfied" ELSE "Satisfied"

\* 'Satisfied' if prediction[0] else 'Not Satisfied' (the emoji of the labels left out).
Label(prediction) == IF Truthy(prediction[1]) THEN "Satisfied" ELSE "Not Satisfied"

NoPrediction(input_df, step) ==
    [result |-> "None", prediction |-> <<>>, X |-> <<>>, shap_values |-> "None",
     lime_explanation |-> "None", raised |-> step, input_df |-> input_df]

make_prediction_transform_copy(model, pre, input_df, fail) ==
    LET enc == encode_categorical(input_df)
        t == transform(pre, input_df)
    IN  IF fail = "encode_categorical" THEN NoPrediction(input_df, fail)
        ELSE IF fail = "transform" \/ ~t.ok THEN NoPrediction(enc, "transform")
        ELSE IF fail \in PredictFailures THEN NoPrediction(enc, fail)
        ELSE [result |-> Label(predict(model, t.X)), prediction |-> predict(model, t.X),
              X |-> t.X, shap_values |-> "shap_values", lime_explanation |-> "lime_explanation",
              raised |-> "none", input_df |-> enc]

\* make_prediction(model, preprocessor, input_df, explainer, lime_explainer):
\* what it returns, the step that raised inside its try block ("none" when none
\* did), and the input_df object as the call leaves it (encoded in place once
\* encode_categorical has run).
make_prediction(model, pre, input_df, fail) ==
    LET enc == encode_categorical(input_df)
        t == transform(pre, enc)
    IN  IF fail = "encode_categorical" THEN NoPrediction(input_df, fail)
        ELSE IF fail = "transform" \/ ~t.ok THEN NoPrediction(enc, "transform")
        ELSE IF fail \in PredictFailures THEN NoPrediction(enc, fail)
        ELSE [result |-> Label(predict(model, t.X)), prediction |-> predict(model, t.X),
              X |-> t.X, shap_values |-> "shap_values", lime_explanation |-> "lime_explanation",
              raised |-> "none", input_df |-> enc]

\* @st.cache_resource: the first call runs the body and keeps the object it
\* returns; every call returns that one shared object.
cache_resource(cache, body) ==
    IF cache = {}
    THEN [value |-> body, cache |-> {body}, ran |-> 1]
    ELSE [value |-> CHOOSE e \in cache : TRUE, cache |-> cache, ran |-> 0]

\* @st.cache_data: the first call runs the body and keeps a serialized
\* snapshot of what it returns; every call returns a fresh copy of it.
cache_data(cache, body) ==
    IF cache = {}
    THEN [value |-> body, cache |-> {body}, ran |-> 1]
    ELSE [value |-> CHOOSE e \in cache : TRUE, cache |-> cache, ran |-> 0]

cache_data_shared_object(cache, value) == {value}

\* The entries of st.cache_data after the run has changed, in place, the
\* value it was handed: the value was a copy, the entries stay as they were.
cache_data_after_mutation(cache, value) == cache

\* The setup of the LIME explainer (line 93): encode_categorical changes the
\* run's flight_df in place; the training data is its transform.
lime_setup(data) ==
    LET flight_df == encode_categorical(data.flight_df)
    IN  [flight_df |-> flight_df, training_data |-> transform(data.preprocessor, flight_df)]

Item(kind, text) == [kind |-> kind, text |-> text]

\* What the script renders before the predict button: images, title, header,
\* description and the user inputs.
PageItems ==
    <<Item("image", "logo"), Item("image", "hero"), Item("title", ""), Item("header", ""),
      Item("description", ""), Item("user_inputs", "")>>

\* st.error in the except branch of make_prediction (line 72).
ErrorItems(p) == IF p.raised # "none" THEN <<Item("error", p.raised)>> ELSE <<>>

\* The predict button handler after make_prediction returned: nothing when
\* the result is None; otherwise the label, the LIME header and the LIME
\* html, where as_html and components.v1.html run outside any try block and
\* an exception they raise ends the run.
ButtonItems(p, fail) ==
    ErrorItems(p) \o
    (IF p.result = "None"
     THEN <<>>
     ELSE <<Item("prediction", p.result)>>
          \o <<Item("lime_header", "")>>
          \o (IF fail \in RenderFailures
              THEN <<Item("uncaught_exception", fail)>>
              ELSE <<Item("lime_html", "")>>))

----------------------------------------------------------------------------
(* Idle values of the variables a specification does not use *)

NoRun == [pressed |-> FALSE, fail |-> "none", choice |-> "", input_df |-> <<>>,
          flight_df |-> <<>>, p |-> NoPrediction(<<>>, "none")]

DefaultWidgets == [i \in Fields |-> DefaultValue(i)]

IdleEnc == df = <<>> /\ snaps = <<>>
IdlePred == pred_df = <<>> /\ pred_out = <<>>
IdleApp ==
    /\ disk = CHOOSE d \in Disks : TRUE
    /\ resource_cache = {} /\ data_cache = {}
    /\ loads = [models |-> 0, data |-> 0]
    /\ widgets = DefaultWidgets /\ model_choice = ModelChoices[1]
    /\ rendered = <<>> /\ run = NoRun

----------------------------------------------------------------------------
(* Specification SpecEnc: encode_categorical applied to any table *)

EncStrings == {"Business", "Eco", "Eco Plus"}
EncInts == {0, 1}
EncColumnNames == <<"Class", "Age">>

StrCellSet(S) == {StrCell(s) : s \in S}
IntCellSet(S) == {IntCell(n) : n \in S}

\* The columns of n rows pandas builds from strings, integers and missing values.
ColumnsOf(name, n) ==
    {[name |-> name, dtype |-> "object", vals |-> v] :
        v \in [1..n -> StrCellSet(EncStrings) \cup {NullCell}]}
    \cup {[name |-> name, dtype |-> "int64", vals |-> v] : v \in [1..n -> IntCellSet(EncInts)]}
    \cup {[name |-> name, dtype |-> "float64", vals |-> v] :
        v \in {w \in [1..n -> IntCellSet(EncInts) \cup {NullCell}] : \E i \in 1..n : w[i] = NullCell}}

TablesOf(n) ==
    {t \in [1..Len(EncColumnNames) -> UNION {ColumnsOf(EncColumnNames[i], n) : i \in 1..Len(EncColumnNames)}] :
        \A i \in 1..Len(EncColumnNames) : t[i].name = EncColumnNames[i]}

InitEnc ==
    /\ \E n \in 0..MaxRows : df \in TablesOf(n)
    /\ snaps = <<df>>
    /\ IdleApp /\ IdlePred

\* One call encode_categorical(df) on the table object.
Encode ==
    /\ Len(snaps) <= MaxCalls
    /\ df' = encode_categorical(df)
    /\ snaps' = Append(snaps, df')
    /\ UNCHANGED <<appVars, predVars>>

NextEnc == Encode

SpecEnc == InitEnc /\ [][NextEnc]_vars

----------------------------------------------------------------------------
(* Specification Spec: the Streamlit application.  Every user action reruns *)
(* the script from top to bottom.                                           *)

Init ==
    /\ disk \in Disks
    /\ resource_cache = {} /\ data_cache = {}
    /\ loads = [models |-> 0, data |-> 0]
    /\ widgets = DefaultWidgets /\ model_choice = ModelChoices[1]
    /\ rendered = <<>> /\ run = NoRun
    /\ IdleEnc /\ IdlePred

\* One run of the script app-prod.py with widget values w, model choice c,
\* the predict button pressed or not, and the library step that raises.
Script(w, c, pressed, fail) ==
    LET models == cache_resource(resource_cache, load_models_body(disk))
        data == cache_data(data_cache, load_and_fit_preprocessor_body(disk))
        selected_model == IF c = "LightGBM" THEN models.value.lgbm_model
                          ELSE models.value.dec_tree
        lime == lime_setup(data.value)
        input_df == user_input_features(w)
        p == IF pressed
             THEN make_prediction(selected_model, data.value.preprocessor, input_df, fail)
             ELSE NoPrediction(input_df, "none")
    IN  /\ resource_cache' = models.cache
        /\ data_cache' = cache_data_after_mutation(data.cache,
                            [preprocessor |-> data.value.preprocessor, flight_df |-> lime.flight_df])
        /\ loads' = [models |-> loads.models + models.ran, data |-> loads.data + data.ran]
        /\ widgets' = w
        /\ model_choice' = c
        /\ rendered' = PageItems \o (IF pressed THEN ButtonItems(p, fail) ELSE <<>>)
        /\ run' = [pressed |-> pressed, fail |-> fail, choice |-> c, input_df |-> p.input_df,
                   flight_df |-> lime.flight_df, p |-> p]
        /\ UNCHANGED <<disk, encVars, predVars>>

\* A browser session opens the page: the widgets start on their defaults.
OpenPage == Script(DefaultWidgets, ModelChoices[1], FALSE, "none")

\* The user moves one input widget.
SetWidget ==
    /\ rendered # <<>>
    /\ \E i \in Fields : \E v \in WidgetValues(i) :
          /\ v # widgets[i]
          /\ Script([widgets EXCEPT ![i] = v], model_choice, FALSE, "none")

\* The user picks the other model.
ChooseModel ==
    /\ rendered # <<>>
    /\ \E j \in DOMAIN ModelChoices :
          /\ ModelChoices[j] # model_choice
          /\ Script(widgets, ModelChoices[j], FALSE, "none")

\* The user presses 'Make Prediction'.
PressPredict ==
    /\ rendered # <<>>
    /\ \E fail \in FailPoints : Script(widgets, model_choice, TRUE, fail)

Next == OpenPage \/ SetWidget \/ ChooseModel \/ PressPredict

Spec == Init /\ [][Next]_vars

----------------------------------------------------------------------------
(* Specification SpecPred: make_prediction called again and again with the  *)
(* same fitted preprocessor, model and input record.                        *)

RECURSIVE WidgetStatesUpTo(_)
WidgetStatesUpTo(k) ==
    IF k = 0 THEN {<<>>}
    ELSE {Append(w, v) : w \in WidgetStatesUpTo(k - 1), v \in WidgetValues(k)}

\* Every combination of widget values of the model.
WidgetStates == WidgetStatesUpTo(Len(WidgetSpec))

InitPred ==
    /\ disk \in Disks
    /\ widgets \in WidgetStates
    /\ model_choice \in {ModelChoices[j] : j \in DOMAIN ModelChoices}
    /\ resource_cache = {} /\ data_cache = {}
    /\ loads = [models |-> 0, data |-> 0]
    /\ rendered = <<>> /\ run = NoRun
    /\ pred_df = user_input_features(widgets)
    /\ pred_out = <<>>
    /\ IdleEnc

SelectedModel == IF model_choice = "LightGBM" THEN disk.lgbm ELSE disk.dec_tree
FittedPreprocessor == load_and_fit_preprocessor_body(disk).preprocessor

\* make_prediction on the record object the earlier calls already encoded.
CallOnSameObject ==
    /\ Len(pred_out) < MaxCalls
    /\ LET p == make_prediction(SelectedModel, FittedPreprocessor, pred_df, "none")
       IN  /\ pred_df' = p.input_df
           /\ pred_out' = Append(pred_out, [result |-> p.result, prediction |-> p.prediction,
                                            same_object |-> TRUE])
    /\ UNCHANGED <<appVars, encVars>>

\* make_prediction on a fresh record built from the same widget values.
CallOnFreshRecord ==
    /\ Len(pred_out) < MaxCalls
    /\ LET p == make_prediction(SelectedModel, FittedPreprocessor,
                                user_input_features(widgets), "none")
       IN  pred_out' = Append(pred_out, [result |-> p.result, prediction |-> p.prediction,
                                         same_object |-> FALSE])
    /\ UNCHANGED <<pred_df, appVars, encVars>>

NextPred == CallOnSameObject \/ CallOnFreshRecord

SpecPred == InitPred /\ [][NextPred]_vars

----------------------------------------------------------------------------
(* Properties of encode_categorical, checked under SpecEnc.  snaps[1] is    *)
(* the table before the first call, snaps[2] the table after it.            *)

DistinctStrings(col) == {col.vals[r].s : r \in {q \in DOMAIN col.vals : col.vals[q].k = "str"}}
NonNegativeCodes(col) == {col.vals[r].n : r \in {q \in DOMAIN col.vals : col.vals[q].n >= 0}}

C2_DistinctCodesPerString ==
    Len(snaps) >= 2 =>
        \A i \in DOMAIN snaps[1] :
            HoldsString(snaps[1][i]) =>
                LET old == snaps[1][i].vals
                    new == snaps[2][i].vals
                IN  /\ OnlyInts(snaps[2][i])
                    /\ Cardinality(NonNegativeCodes(snaps[2][i]))
                         = Cardinality(DistinctStrings(snaps[1][i]))
                    /\ \A r1, r2 \in DOMAIN old :
                          (new[r1] = new[r2]) <=> (old[r1] = old[r2])

\* The column <<"Eco", "Business", "Eco">> has been encoded to two codes.
C2_Witness ==
    /\ Len(snaps) = 2
    /\ \E i \in DOMAIN df :
          /\ snaps[1][i].vals = <<StrCell("Eco"), StrCell("Business"), StrCell("Eco")>>
          /\ df[i].vals[1] = df[i].vals[3]
          /\ df[i].vals[1] # df[i].vals[2]

\* C3 as stated: every column that holds no strings keeps its values, and a
\* second call changes nothing.
C3_StringFreeColumnsUnchanged ==
    /\ Len(snaps) >= 2 =>
          \A i \in DOMAIN snaps[1] :
              ~HoldsString(snaps[1][i]) => snaps[2][i].vals = snaps[1][i].vals
    /\ Len(snaps) >= 3 => snaps[3] = snaps[2]

\* C3 amended: every column whose dtype is not object is left unchanged by a
\* call, and a call on an already encoded table changes nothing.
C3_NonObjectUnchangedIdempotent ==
    /\ \A c \in 2..Len(snaps) :
          \A i \in DOMAIN snaps[c] :
              snaps[c - 1][i].dtype # "object" => snaps[c][i] = snaps[c - 1][i]
    /\ Len(snaps) >= 3 => snaps[3] = snaps[2]

C3_Witness ==
    /\ Len(snaps) = 3
    /\ \E i, j \in DOMAIN df :
          /\ snaps[1][i].dtype = "int64" /\ Len(snaps[1][i].vals) >= 2
          /\ HoldsString(snaps[1][j])
    /\ snaps[3] = snaps[2]

\* C4: a string column with missing values keeps its rows in place, and every
\* missing cell gets one and the same code, which no string of the column gets.
C4_NullOwnCode ==
    Len(snaps) >= 2 =>
        \A i \in DOMAIN snaps[1] :
            (HoldsString(snaps[1][i]) /\ HoldsNull(snaps[1][i])) =>
                LET old == snaps[1][i].vals
                    new == snaps[2][i].vals
                IN  /\ DOMAIN new = DOMAIN old
                    /\ OnlyInts(snaps[2][i])
                    /\ \A r1, r2 \in DOMAIN old :
                          (old[r1].k = "null" /\ old[r2].k = "null") => new[r1] = new[r2]
                    /\ \A r1, r2 \in DOMAIN old :
                          (old[r1].k = "null" /\ old[r2].k = "str") => new[r1] # new[r2]
                    /\ \A r1, r2 \in DOMAIN old :
                          (old[r1].k = "str" /\ old[r2].k = "str") =>
                              ((new[r1] = new[r2]) <=> (old[r1].s = old[r2].s))

C4_Witness ==
    /\ Len(snaps) = 2
    /\ \E i \in DOMAIN df :
          /\ snaps[1][i].vals = <<NullCell, StrCell("Eco"), NullCell>>
          /\ df[i].vals = <<IntCell(-1), IntCell(0), IntCell(-1)>>

----------------------------------------------------------------------------
(* Properties of the application, checked under Spec *)

Kinds == {rendered[i].kind : i \in DOMAIN rendered}
ErrorMessages == {i \in DOMAIN rendered : rendered[i].kind = "error"}
CachedData == CHOOSE e \in data_cache : TRUE

\* C5: in a prediction request, a failure at any step of the predict/explain
\* path (the rendering of the explanation included) is caught and shown as
\* exactly one error message, and neither the label nor any explanation is
\* rendered.
C5_FailuresCaughtNoPartial ==
    (run.pressed /\ run.fail # "none") =>
        /\ Cardinality(ErrorMessages) = 1
        /\ "uncaught_exception" \notin Kinds
        /\ Kinds \cap {"prediction", "shap_plot", "lime_header", "lime_html"} = {}

\* C6: the cached loaders run once, and what the caches hold stays what was
\* loaded from disk, whatever the runs do to the objects they were handed.
C6_CachesLoadedOnceNeverMutated ==
    /\ loads.models <= 1 /\ loads.data <= 1
    /\ resource_cache \subseteq {load_models_body(disk)}
    /\ data_cache \subseteq {load_and_fit_preprocessor_body(disk)}
    /\ rendered # <<>> =>
          /\ loads.models = 1 /\ loads.data = 1
          /\ resource_cache # {} /\ data_cache # {}

\* A later request, after runs that encoded their flight_df and input_df in
\* place: the cache still holds the strings of the CSV.
C6_Witness ==
    /\ run.pressed /\ run.p.raised = "none"
    /\ widgets # DefaultWidgets /\ model_choice = ModelChoices[2]
    /\ data_cache # {}
    /\ \A i \in Nominal : HoldsString(CachedData.flight_df[i]) /\ ~HoldsString(run.flight_df[i])
    /\ \A i \in Nominal : ~HoldsString(run.input_df[i])

\* C8: after the button is pressed and the pipeline succeeds, the page shows
\* the prediction label, the SHAP visualization and the LIME explanation.
C8_AllThreeRendered ==
    (run.pressed /\ run.fail = "none") =>
        {"prediction", "shap_plot", "lime_html"} \subseteq Kinds

\* C9: a make_prediction call in which no library step fails returns a label
\* in {Satisfied, Not Satisfied} and raises no error; the label is Satisfied
\* exactly when the first element of the predict output is truthy; the label
\* is None only on the error path.
C9_LabelFromPrediction ==
    run.pressed =>
        /\ run.fail \notin PredictFailures =>
              /\ run.p.result \in {"Satisfied", "Not Satisfied"}
              /\ (run.p.result = "Satisfied") <=> (run.p.prediction[1] # 0)
              /\ run.p.raised = "none"
              /\ ErrorMessages = {}
        /\ (run.p.result = "None") <=> (run.fail \in PredictFailures)

C9_Witness ==
    /\ run.pressed /\ run.fail = "none"
    /\ widgets = DefaultWidgets
    /\ run.p.result = "Not Satisfied"
    /\ rendered[Len(PageItems) + 1] = Item("prediction", "Not Satisfied")

\* C10: in a prediction request the one-row input record is encoded with code 0
\* in every nominal field, whatever the user selected, so the record handed to
\* transform and to the model does not depend on the nominal selections.
C10_NominalCodesAllZero ==
    (run.pressed /\ run.fail # "encode_categorical") =>
        /\ \A i \in Nominal : run.input_df[i].vals = <<IntCell(0)>>
        /\ \A i \in Numeric : run.input_df[i].vals = <<widgets[i]>>
        /\ run.p.raised = "none" =>
              run.p.X = <<[i \in Fields |-> IF i \in Nominal THEN 0 ELSE widgets[i].n]>>

\* 'Eco' is selected and gets code 0 at inference, while the reference pass of
\* the same run gave 'Eco' the code 1.
C10_Witness ==
    /\ run.pressed /\ run.fail = "none"
    /\ widgets[10] = StrCell("Eco") /\ widgets[8] = StrCell("No")
    /\ run.input_df[10].vals = <<IntCell(0)>>
    /\ \E r \in DOMAIN disk.csv :
          /\ disk.csv[r][10] = "Eco"
          /\ run.flight_df[10].vals[r] = IntCell(1)

----------------------------------------------------------------------------
(* Properties of repeated prediction, checked under SpecPred *)

\* C7: with the same fitted preprocessor, model and input record, every call
\* of make_prediction returns the same prediction, a call on the record object
\* an earlier call encoded in place included.
C7_SamePredictionEveryCall ==
    \A i, j \in DOMAIN pred_out :
        /\ pred_out[i].prediction = pred_out[j].prediction
        /\ pred_out[i].result = pred_out[j].result

C7_Witness ==
    /\ Len(pred_out) >= 2
    /\ pred_out[1].same_object /\ pred_out[2].same_object
    /\ pred_out[2].prediction = <<1>>
    /\ widgets[1] = IntCell(5)
    /\ ~HoldsString(pred_df[10])

====
